---------------------------- MODULE Spec2Model ----------------------------
(***************************************************************************)
(* A model of scanpipe/pipes/fetch.py: the batch fetch of a list of URIs    *)
(* (fetch_urls), the two fetchers it dispatches to (fetch_http and          *)
(* fetch_docker_image) and the platform resolution of a docker reference    *)
(* (get_docker_image_platform); and of scanpipe/api/views.py: the two       *)
(* actions of RunViewSet that schedule the task of a Run (start_pipeline    *)
(* and resume_pipeline), for requests that interleave with each other and   *)
(* with the task manager.                                                   *)
(*                                                                          *)
(* Python strings are TLA+ strings and are taken apart character by         *)
(* character (Len, SubSeq, \o), so that the prefix test of the dispatcher,  *)
(* the parsing of the Content-Disposition header, the parsing of the URL    *)
(* and the building of the skopeo command lines are computed the way the    *)
(* code computes them.  The network, the file system and the skopeo         *)
(* executable are the environment: every call to them is a nondeterministic *)
(* choice among the outcomes listed in the environment section.             *)
(***************************************************************************)
EXTENDS Integers, Sequences, FiniteSets, TLC

VARIABLES
    entry,      \* the function the caller invoked
    urls,       \* fetch_urls: its urls, a str or a list; a list from line 219
    i,          \* fetch_urls: position of the for loop in urls (1-based)
    downloads,  \* fetch_urls: the downloads list
    errors,     \* fetch_urls: the errors list
    pc,         \* the statement the running call is at
    frame,      \* the locals of the running fetcher
    fs,         \* the file system: directories, files and their content
    ran,        \* the commands pipes.run_command has run for the running fetcher
    outcome,    \* what the call made by the caller returned or raised
    location,   \* what get_location("fetchcode_container.skopeo.bindir") answers
    run,        \* api: the row of the Run in the database
    requests,   \* api: the requests received for the Run, each with its locals
    queue,      \* api: the messages sent to the task manager, not yet taken
    started     \* api: the tasks the task manager has started, in order

vars == <<entry, urls, i, downloads, errors, pc, frame, fs, ran, outcome,
          location, run, requests, queue, started>>

\* The state of scanpipe/api/views.py, which the fetchers leave alone
api == <<run, requests, queue, started>>

\* The state of scanpipe/pipes/fetch.py, which the views leave alone
fetch == <<entry, urls, i, downloads, errors, pc, frame, fs, ran, outcome,
           location>>

---------------------------------------------------------------------------
(* Python str methods, on TLA+ strings.                                    *)

\* s[a-1:b] of Python, on 1-based positions: the characters a..b that exist
Slice(s, a, b) ==
    LET lo == IF a < 1 THEN 1 ELSE a
        hi == IF b > Len(s) THEN Len(s) ELSE b
    IN  IF lo > hi THEN "" ELSE SubSeq(s, lo, hi)

CharAt(s, k) == Slice(s, k, k)

\* s.startswith(p)
StartsWith(s, p) == Len(s) >= Len(p) /\ Slice(s, 1, Len(p)) = p

\* The least element of a non-empty set of positions
Least(S) == CHOOSE k \in S : \A m \in S : k <= m

\* The greatest element of a non-empty set of positions
Greatest(S) == CHOOSE k \in S : \A m \in S : k >= m

\* The positions >= from at which sub occurs in s
OccursAt(s, sub, from) ==
    {k \in from..(Len(s) - Len(sub) + 1) : Slice(s, k, k + Len(sub) - 1) = sub}

\* s.find(sub, from): the first 1-based position >= from where sub occurs,
\* 0 when there is none (Python answers -1 on 0-based positions).
Find(s, sub, from) ==
    IF OccursAt(s, sub, from) = {} THEN 0 ELSE Least(OccursAt(s, sub, from))

\* s.rfind(sub): the last position where sub occurs, 0 when there is none.
RFind(s, sub) ==
    IF OccursAt(s, sub, 1) = {} THEN 0 ELSE Greatest(OccursAt(s, sub, 1))

\* sub in s
Contains(s, sub) == OccursAt(s, sub, 1) # {}

\* s.count(sub, 0, end): non-overlapping occurrences of sub within s[:end]
RECURSIVE CountIn(_, _, _, _)
CountIn(s, sub, from, end) ==
    LET k == Find(Slice(s, 1, end), sub, from)
    IN  IF k = 0 THEN 0 ELSE 1 + CountIn(s, sub, k + Len(sub), end)

\* s.replace(old, new), old non-empty
RECURSIVE Replace(_, _, _)
Replace(s, old, new) ==
    LET k == Find(s, old, 1)
    IN  IF k = 0 THEN s
        ELSE Slice(s, 1, k - 1) \o new
                 \o Replace(Slice(s, k + Len(old), Len(s)), old, new)

Whitespace == {" ", "\n", "\t", "\r"}

\* The positions of s that hold no whitespace
Inked(s) == {k \in 1..Len(s) : CharAt(s, k) \notin Whitespace}

\* s.strip()
Strip(s) == IF Inked(s) = {} THEN "" ELSE Slice(s, Least(Inked(s)), Greatest(Inked(s)))

\* The maximal runs of the characters of s at the positions of the set keep,
\* in order, from position `from` on.
RECURSIVE RunsFrom(_, _, _)
RunsFrom(s, keep, from) ==
    LET starts == {k \in keep : k >= from}
    IN  IF starts = {} THEN <<>>
        ELSE LET first == Least(starts)
                 last  == Least({k \in first..Len(s) : k + 1 \notin keep})
             IN  <<Slice(s, first, last)>> \o RunsFrom(s, keep, last + 1)

\* s.split(): the maximal runs of non-whitespace characters, in order.
Split(s) == RunsFrom(s, Inked(s), 1)

UpperCase == "ABCDEFGHIJKLMNOPQRSTUVWXYZ"
LowerCase == "abcdefghijklmnopqrstuvwxyz"
Digits == "0123456789"

LowerChar(c) ==
    LET k == Find(UpperCase, c, 1) IN IF k = 0 THEN c ELSE CharAt(LowerCase, k)

\* s.lower()
RECURSIVE Lower(_)
Lower(s) == IF Len(s) = 0 THEN "" ELSE LowerChar(CharAt(s, 1)) \o Lower(Tail(s))

\* sep.join(parts)
RECURSIVE Join(_, _)
Join(parts, sep) ==
    IF Len(parts) = 0 THEN ""
    ELSE IF Len(parts) = 1 THEN parts[1]
    ELSE parts[1] \o sep \o Join(Tail(parts), sep)

\* Python truthiness of a str
NonEmpty(s) == Len(s) > 0

---------------------------------------------------------------------------
(* Optional values: None is the empty tuple, a value v is <<v>>.           *)

None == <<>>
Some(v) == <<v>>
IsNone(o) == Len(o) = 0

---------------------------------------------------------------------------
(* cgi.parse_header, as fetch_http uses it on the Content-Disposition      *)
(* header.                                                                 *)

\* cgi._parseparam: where the parameter that starts s ends.  `end` is the
\* position of a ';' (0: there is none); a ';' inside a quoted string (an odd
\* number of unescaped quotes before it) does not end the parameter.
RECURSIVE ParamEnd(_, _)
ParamEnd(s, end) ==
    IF end > 1 /\ (CountIn(s, "\"", 1, end - 1)
                    - CountIn(s, "\\\"", 1, end - 1)) % 2 = 1
    THEN ParamEnd(s, Find(s, ";", end + 1))
    ELSE IF end = 0 THEN Len(s) + 1 ELSE end

\* cgi._parseparam(s): the ';'-separated fields of s, each stripped.
RECURSIVE _parseparam(_)
_parseparam(s) ==
    IF Slice(s, 1, 1) # ";" THEN <<>>
    ELSE LET t   == Tail(s)
             end == ParamEnd(t, Find(t, ";", 1))
         IN  <<Strip(Slice(t, 1, end - 1))>>
                 \o _parseparam(Slice(t, end, Len(t)))

\* The value of one parameter: stripped, unquoted and unescaped.
ParamValue(raw) ==
    LET value == Strip(raw)
    IN  IF Len(value) >= 2 /\ CharAt(value, 1) = "\""
                           /\ CharAt(value, Len(value)) = "\""
        THEN Replace(Replace(Slice(value, 2, Len(value) - 1),
                             "\\\\", "\\"), "\\\"", "\"")
        ELSE value

\* cgi.parse_header(line): <<key, pdict>>, pdict the <<name, value>> pairs in
\* the order of the header (a dict: the last pair of a name is its value).
parse_header(line) ==
    LET parts == _parseparam(";" \o line)
        pairs == [k \in 1..(Len(parts) - 1) |->
                    LET p  == parts[k + 1]
                        eq == Find(p, "=", 1)
                    IN  IF eq = 0 THEN None
                        ELSE Some(<<Lower(Strip(Slice(p, 1, eq - 1))),
                                    ParamValue(Slice(p, eq + 1, Len(p)))>>)]
    IN  <<parts[1], pairs>>

\* pdict.get(name): the value of the last pair named `name`, or None.
RECURSIVE DictGet(_, _)
DictGet(pairs, name) ==
    IF Len(pairs) = 0 THEN None
    ELSE LET last == pairs[Len(pairs)]
         IN  IF ~IsNone(last) /\ last[1][1] = name THEN Some(last[1][2])
             ELSE DictGet(SubSeq(pairs, 1, Len(pairs) - 1), name)

---------------------------------------------------------------------------
(* urllib.parse.urlparse(url).path and pathlib.Path.                       *)

SchemeChars == LowerCase \o UpperCase \o Digits \o "+-."

\* Every character of s is one of chars
AllIn(s, chars) == \A k \in 1..Len(s) : Contains(chars, CharAt(s, k))

\* The least non-zero of two positions (0: none).
MinPos(a, b) == IF a = 0 THEN b ELSE IF b = 0 THEN a ELSE IF a < b THEN a ELSE b

\* urlsplit: url without its scheme
AfterScheme(url) ==
    LET c == Find(url, ":", 1)
    IN  IF c > 1 /\ AllIn(Slice(url, 1, c - 1), SchemeChars)
        THEN Slice(url, c + 1, Len(url)) ELSE url

\* urlsplit: the scheme of url, lowercased ("" when it has none)
SchemeOf(url) ==
    LET c == Find(url, ":", 1)
    IN  IF c > 1 /\ AllIn(Slice(url, 1, c - 1), SchemeChars)
        THEN Lower(Slice(url, 1, c - 1)) ELSE ""

\* urlsplit, _splitnetloc: url without its "//netloc"
AfterNetloc(rest) ==
    IF Slice(rest, 1, 2) # "//" THEN rest
    ELSE LET delim == MinPos(Find(rest, "/", 3),
                             MinPos(Find(rest, "?", 3), Find(rest, "#", 3)))
         IN  IF delim = 0 THEN "" ELSE Slice(rest, delim, Len(rest))

\* s.split(c, 1)[0]
Before(s, c) ==
    LET k == Find(s, c, 1) IN IF k = 0 THEN s ELSE Slice(s, 1, k - 1)

UsesParams == {"", "ftp", "hdl", "prospero", "http", "imap", "https",
               "shttp", "rtsp", "rtspu", "sip", "sips", "mms", "sftp", "tel"}

\* urllib.parse._splitparams(url)[0]
_splitparams(url) ==
    LET slash == RFind(url, "/")
        semi  == IF slash # 0 THEN Find(url, ";", slash) ELSE Find(url, ";", 1)
    IN  IF semi = 0 THEN url ELSE Slice(url, 1, semi - 1)

\* urlparse(url).path
UrlPath(url) ==
    LET p == Before(Before(AfterNetloc(AfterScheme(url)), "#"), "?")
    IN  IF SchemeOf(url) \in UsesParams /\ Contains(p, ";")
        THEN _splitparams(p) ELSE p

\* s.split(sep)
RECURSIVE SplitOn(_, _)
SplitOn(s, sep) ==
    LET k == Find(s, sep, 1)
    IN  IF k = 0 THEN <<s>>
        ELSE <<Slice(s, 1, k - 1)>> \o SplitOn(Slice(s, k + 1, Len(s)), sep)

\* PurePosixPath: the components of a path, without the empty ones and "."
PathParts(p) == SelectSeq(SplitOn(p, "/"), LAMBDA x : x # "" /\ x # ".")

\* PurePosixPath: the root of a path: "", "/" or (exactly two slashes) "//"
PathRoot(p) ==
    IF ~StartsWith(p, "/") THEN ""
    ELSE IF StartsWith(p, "//") /\ ~StartsWith(p, "///") THEN "//" ELSE "/"

\* Path(p).name
PathName(p) ==
    LET parts == PathParts(p) IN IF Len(parts) = 0 THEN "" ELSE parts[Len(parts)]

\* str(Path(p))
PathStr(p) ==
    LET s == PathRoot(p) \o Join(PathParts(p), "/") IN IF s = "" THEN "." ELSE s

\* str(Path(directory, name)): an absolute name replaces the directory
PathJoin(directory, name) ==
    IF StartsWith(name, "/") THEN PathStr(name)
    ELSE PathStr(directory \o "/" \o name)

\* str(Path(p).parent)
PathParent(p) ==
    LET parts == PathParts(p)
    IN  IF Len(parts) = 0 THEN PathStr(p)
        ELSE LET s == PathRoot(p) \o Join(SubSeq(parts, 1, Len(parts) - 1), "/")
             IN  IF s = "" THEN "." ELSE s

---------------------------------------------------------------------------
(* commoncode.text.python_safe_name                                        *)

WordChars == LowerCase \o UpperCase \o Digits

\* The positions of s that re.sub(r"[\W_]", " ", s) leaves alone: those of
\* letters and digits
Wordy(s) == {k \in 1..Len(s) : Contains(WordChars, CharAt(s, k))}

\* python_safe_name(s): "_".join(no_punctuation(" ", s).split()), the runs of
\* letters and digits of s joined by "_"
python_safe_name(s) == Join(RunsFrom(s, Wordy(s), 1), "_")

---------------------------------------------------------------------------
(* JSON values, as json.loads returns them: None, a str, a list or a dict. *)
(* A value is its type t, the text s of a str, and the members a of a list  *)
(* or a dict, each a key k (of a dict) and a value j.                       *)

JNull == [t |-> "null", s |-> "", a |-> <<>>]
JStr(x) == [t |-> "str", s |-> x, a |-> <<>>]
JArr(items) ==
    [t |-> "arr", s |-> "",
     a |-> [n \in 1..Len(items) |-> [k |-> "", j |-> items[n]]]]
JObj(pairs) ==
    [t |-> "obj", s |-> "",
     a |-> [n \in 1..Len(pairs) |-> [k |-> pairs[n][1], j |-> pairs[n][2]]]]

\* The items of a list, in order
Items(arr) == [n \in 1..Len(arr.a) |-> arr.a[n].j]

\* Python truthiness: None, "", [] and {} are false
Truthy(j) == IF j.t = "str" THEN NonEmpty(j.s) ELSE Len(j.a) > 0

\* a or b
PyOr(a, b) == IF Truthy(a) THEN a ELSE b

\* d.get(key): the value of the (last) member of that key, None without one
RECURSIVE GetFrom(_, _)
GetFrom(members, key) ==
    IF Len(members) = 0 THEN JNull
    ELSE LET last == members[Len(members)]
         IN  IF last.k = key THEN last.j
             ELSE GetFrom(SubSeq(members, 1, Len(members) - 1), key)

JGet(d, key) == GetFrom(d.a, key)

\* str(j) of a JSON string, as an f-string formats it
JText(j) == j.s

---------------------------------------------------------------------------
(* Exceptions and their classes.                                           *)

\* The classes each exception class derives from (Exception included).
Bases ==
    [Exception             |-> {},
     RequestException      |-> {"OSError", "Exception"},
     ConnectionError       |-> {"RequestException", "OSError", "Exception"},
     FetchDockerImageError |-> {"Exception"},
     OSError               |-> {"Exception"},
     FileNotFoundError     |-> {"OSError", "Exception"},
     IsADirectoryError     |-> {"OSError", "Exception"},
     PermissionError       |-> {"OSError", "Exception"},
     JSONDecodeError       |-> {"ValueError", "Exception"}]

Exc(type, message) == [type |-> type, message |-> message]

isinstance(exc, class) == exc.type = class \/ class \in Bases[exc.type]

---------------------------------------------------------------------------
(* The Download record and the digests of commoncode.hash.multi_checksums. *)

\* The digest of a content under an algorithm: a collision-free stand-in,
\* the algorithm's name and the content it was computed from.
Digest(alg, content) == alg \o "(" \o content \o ")"

Download(uri, directory, filename, path, size, sha1, md5) ==
    [uri |-> uri, directory |-> directory, filename |-> filename,
     path |-> path, size |-> size, sha1 |-> sha1, md5 |-> md5]

---------------------------------------------------------------------------
(* Bounds of the model.                                                    *)

\* The longest list of urls given to fetch_urls.
MaxUrls == 3

\* The longest manifests array an inspect output holds.
MaxManifests == 2

---------------------------------------------------------------------------
(* The environment: the file system.                                       *)

\* Where the skopeo plugin may say its executable is: an installed
\* directory, a path that does not exist, a path that is a file.
Locations == {"/opt/skopeo/bin", "/opt/missing", "/opt/skopeo/bin/skopeo"}

\* The file system before the call.
InitFs ==
    [dirs  |-> {"/", "/tmp", "/opt", "/opt/skopeo", "/opt/skopeo/bin"},
     files |-> [p \in {"/opt/skopeo/bin/skopeo"} |-> "ELF"],
     ntmp  |-> 0]

\* Path.is_dir()
is_dir(path) == path \in fs.dirs

\* Path.exists()
exists(path) == path \in fs.dirs \/ path \in DOMAIN fs.files

\* tempfile.mkdtemp(): the name of the directory it creates
TmpDir(f) == "/tmp/tmp" \o ToString(f.ntmp + 1)

\* tempfile.mkdtemp(): the file system with that directory
mkdtemp(f) == [f EXCEPT !.ntmp = @ + 1, !.dirs = @ \cup {TmpDir(f)}]

\* The file system after path is written with content.
WithFile(f, path, content) ==
    [f EXCEPT !.files = [p \in DOMAIN f.files \cup {path} |->
                            IF p = path THEN content ELSE f.files[p]]]

\* What may go wrong in open(path, "wb") and f.write(content) beyond the
\* path itself: nothing, the open is refused, the write fails once the file
\* has been created.
WriteFaults == {"none", "open", "write"}

\* open(output_file, "wb") then f.write(file_content): the exception raised
\* (None without one) and the file system left.
open_write(f, path, content, fault) ==
    IF path \in f.dirs
    THEN [exc |-> Some(Exc("IsADirectoryError", path)), fs |-> f]
    ELSE IF PathParent(path) \notin f.dirs
    THEN [exc |-> Some(Exc("FileNotFoundError", path)), fs |-> f]
    ELSE IF fault = "open"
    THEN [exc |-> Some(Exc("PermissionError", path)), fs |-> f]
    ELSE IF fault = "write"
    THEN [exc |-> Some(Exc("OSError", path)), fs |-> WithFile(f, path, "")]
    ELSE [exc |-> None, fs |-> WithFile(f, path, content)]

\* What may go wrong in reading a file that exists: nothing, the read fails.
ReadFaults == {"none", "read"}

\* multi_checksums(path, ("md5", "sha1")): the exception raised (None without
\* one) and the digests, computed from the content of the file at path.
multi_checksums(f, path, fault) ==
    IF path \in f.dirs
    THEN [exc |-> Some(Exc("IsADirectoryError", path)), md5 |-> "", sha1 |-> ""]
    ELSE IF path \notin DOMAIN f.files
    THEN [exc |-> Some(Exc("FileNotFoundError", path)), md5 |-> "", sha1 |-> ""]
    ELSE IF fault = "read"
    THEN [exc |-> Some(Exc("OSError", path)), md5 |-> "", sha1 |-> ""]
    ELSE [exc  |-> None,
          md5  |-> Digest("md5", f.files[path]),
          sha1 |-> Digest("sha1", f.files[path])]

---------------------------------------------------------------------------
(* The environment: what requests.get answers.                             *)

\* A response: its status code, its Content-Disposition header (None when
\* the response has none), its effective (post-redirect) url, its body.
Response(status_code, content_disposition, url, content) ==
    [status_code |-> status_code, content_disposition |-> content_disposition,
     url |-> url, content |-> content]

\* The effective urls a request of uri may end at: itself, or where a chain
\* of redirects led.
EffectiveUrls(uri) ==
    {uri, "https://host/final/name.tar.gz", "https://h/dir/", "https://h/",
     "https://h/p/f.zip;v=1?x=1#frag"}

ContentDispositions ==
    {None,
     Some("attachment"),
     Some("attachment; filename=\"x.zip\""),
     Some("attachment; filename=y.zip"),
     Some("attachment; filename=\"\""),
     Some("attachment; FILENAME=\"x.zip\""),
     Some("inline; filename=\"a;b.zip\"; size=3"),
     Some("attachment; filename=\"sub/x.zip\""),
     Some("attachment; filename=\"/tmp/evil\""),
     Some("attachment; filename*=UTF-8''x.zip")}

\* The responses a direct call of fetch_http is checked against.
AllResponses(uri) ==
    {Response(st, cd, u, c) :
        st \in {200, 204, 301, 404, 500}, cd \in ContentDispositions,
        u \in EffectiveUrls(uri), c \in {"", "data"}}

\* The responses a batch is checked against: a 404, a 200 that names its
\* file, a 200 reached by a redirect.
BatchResponses(uri) ==
    {Response(404, None, uri, "not found"),
     Response(200, Some("attachment; filename=\"x.zip\""), uri, "data"),
     Response(200, None, "https://host/final/name.tar.gz", "data")}

Responses(uri) ==
    IF entry = "fetch_urls" THEN BatchResponses(uri) ELSE AllResponses(uri)

---------------------------------------------------------------------------
(* The environment: what pipes.run_command answers for skopeo.             *)

\* The output of a command that is no JSON document.
Text(x) == [t |-> "text", s |-> x, a |-> <<>>]

\* One entry of a manifests array with that "platform" value.
Manifest(digest, platform) ==
    JObj(<<<<"digest", JStr(digest)>>, <<"platform", platform>>>>)

\* The entries a manifests array is made of: without a platform, with a
\* null and an empty one, the two of the comment of the code, and platforms
\* with missing or empty os, architecture and variant.
ManifestEntries ==
    {JObj(<<<<"digest", JStr("sha256:0")>>>>),
     Manifest("sha256:1", JNull),
     Manifest("sha256:2", JObj(<<>>)),
     Manifest("sha256:3", JObj(<<<<"architecture", JStr("amd64")>>,
                                 <<"os", JStr("windows")>>,
                                 <<"os.version", JStr("10.0.19041.985")>>>>)),
     Manifest("sha256:4", JObj(<<<<"architecture", JStr("arm")>>,
                                 <<"os", JStr("linux")>>,
                                 <<"variant", JStr("v7")>>>>)),
     Manifest("sha256:5", JObj(<<<<"architecture", JStr("arm64")>>>>)),
     Manifest("sha256:6", JObj(<<<<"architecture", JStr("")>>,
                                 <<"os", JStr("")>>,
                                 <<"variant", JStr("")>>>>)),
     Manifest("sha256:7", JObj(<<<<"os", JNull>>,
                                 <<"variant", JStr("v8")>>>>))}

ManifestLists ==
    UNION {[1..n -> ManifestEntries] : n \in 0..MaxManifests}

SchemaVersion == <<"schemaVersion", JStr("2")>>

\* The raw manifests skopeo inspect may print: of a single-platform image
\* (no "manifests"), with a null "manifests", of a manifest list.
AllInspections ==
    {JObj(<<SchemaVersion>>), JObj(<<SchemaVersion, <<"manifests", JNull>>>>)}
        \cup {JObj(<<SchemaVersion, <<"manifests", JArr(ms)>>>>) :
                ms \in ManifestLists}

\* The example of the comment in get_docker_image_platform
ExampleManifests ==
    <<Manifest("sha256:3", JObj(<<<<"architecture", JStr("amd64")>>,
                                  <<"os", JStr("windows")>>,
                                  <<"os.version", JStr("10.0.19041.985")>>>>)),
      Manifest("sha256:4", JObj(<<<<"architecture", JStr("arm")>>,
                                  <<"os", JStr("linux")>>,
                                  <<"variant", JStr("v7")>>>>))>>

BatchInspections ==
    {JObj(<<SchemaVersion>>),
     JObj(<<SchemaVersion, <<"manifests", JArr(ExampleManifests)>>>>)}

\* What run_command answers for "skopeo inspect": its exit code and output.
InspectResults ==
    {[exitcode |-> 1, output |-> Text("manifest unknown")]}
        \cup (IF entry = "fetch_urls" THEN {}
              ELSE {[exitcode |-> 0, output |-> Text("not json")],
                    [exitcode |-> 125, output |-> Text("unauthorized")]})
        \cup {[exitcode |-> 0, output |-> j] :
                j \in IF entry = "fetch_urls" THEN BatchInspections
                      ELSE AllInspections}

\* What run_command answers for "skopeo copy": its exit code, its output and
\* the content of the archive it left at the target (None: it left no file).
CopyResults ==
    {[exitcode |-> 0, output |-> Text("Writing manifest"), wrote |-> Some("layers")],
     [exitcode |-> 1, output |-> Text("copy failed"), wrote |-> None]}
        \cup (IF entry = "fetch_urls" THEN {}
              ELSE {[exitcode |-> 0, output |-> Text(""), wrote |-> None],
                    [exitcode |-> 1, output |-> Text("copy failed"),
                     wrote |-> Some("")]})

---------------------------------------------------------------------------
(* The program: the pure parts of fetch.py.                                *)

\* A status check that takes every 2xx response
status_ok_2xx(response) ==
    response.status_code >= 200 /\ response.status_code < 300

\* fetch_http: response.status_code != 200 raises
status_ok(response) == response.status_code = 200

\* A name taken from the uri requested instead of the effective url
http_filename_of_uri(uri, response) ==
    LET content_disposition ==
            IF IsNone(response.content_disposition) THEN ""
            ELSE response.content_disposition[1]
        filename == DictGet(parse_header(content_disposition)[2], "filename")
    IN  IF ~IsNone(filename) /\ NonEmpty(filename[1]) THEN filename[1]
        ELSE PathName(UrlPath(uri))

\* fetch_http: the name of the local file, from the Content-Disposition
\* header's filename parameter and, without one, from the effective url.
http_filename(uri, response) ==
    LET content_disposition ==
            IF IsNone(response.content_disposition) THEN ""
            ELSE response.content_disposition[1]
        params   == parse_header(content_disposition)[2]
        filename == DictGet(params, "filename")
    IN  IF ~IsNone(filename) /\ NonEmpty(filename[1]) THEN filename[1]
        ELSE PathName(UrlPath(response.url))

\* A location check that takes any path that exists: Path.exists()
_get_skopeo_location_exists ==
    IF exists(location)
    THEN [ok |-> TRUE, path |-> location]
    ELSE [ok |-> FALSE,
          exc |-> Exc("Exception",
                      "CRITICAL: skopeo executable is not installed.")]

\* _get_skopeo_location: the directory of skopeo (ok), or the exception
\* raised when what get_location answers is no directory.
_get_skopeo_location ==
    IF is_dir(location)
    THEN [ok |-> TRUE, path |-> location]
    ELSE [ok |-> FALSE,
          exc |-> Exc("Exception",
                      "CRITICAL: skopeo executable is not installed.")]

\* get_docker_image_platform: the command line of the inspection
inspect_cmd(skopeo_executable, docker_reference) ==
    skopeo_executable \o " inspect --insecure-policy --raw --no-creds "
        \o docker_reference

\* An inspection whose exit code is not checked
inspect_ok_unchecked(exitcode) == TRUE

\* get_docker_image_platform: raise when the inspection exits non-zero
inspect_ok(exitcode) == exitcode = 0

\* get_docker_image_platform, the for loop: the platform of the first
\* manifest whose platform is neither missing nor empty, as
\* Some(<<os, architecture, variant>>); None when the loop ends.
RECURSIVE first_platform(_)
first_platform(manifests) ==
    IF Len(manifests) = 0 THEN None
    ELSE LET platform == PyOr(JGet(manifests[1], "platform"), JObj(<<>>))
         IN  IF Truthy(platform)
             THEN Some(<<JText(PyOr(JGet(platform, "os"), JStr("linux"))),
                         JText(PyOr(JGet(platform, "architecture"),
                                    JStr("amd64"))),
                         JText(PyOr(JGet(platform, "variant"), JStr("")))>>)
             ELSE first_platform(Tail(manifests))

\* A loop that does not return at the first platform: the last one wins
RECURSIVE last_platform(_)
last_platform(manifests) ==
    IF Len(manifests) = 0 THEN None
    ELSE LET later == last_platform(Tail(manifests))
         IN  IF IsNone(later) THEN first_platform(<<manifests[1]>>) ELSE later

select_platform_last(inspection) ==
    last_platform(Items(PyOr(JGet(inspection, "manifests"), JArr(<<>>))))

\* get_docker_image_platform, after json.loads: the platform of an inspection
select_platform(inspection) ==
    first_platform(Items(PyOr(JGet(inspection, "manifests"), JArr(<<>>))))

\* Platform arguments that pass every field, empty or not
platform_args_all(platform) ==
    IF IsNone(platform) THEN ""
    ELSE Join(<<"--override-os=" \o platform[1][1],
                "--override-arch=" \o platform[1][2],
                "--override-variant=" \o platform[1][3]>>, " ")

\* fetch_docker_image: the platform arguments of the copy, joined
platform_args(platform) ==
    IF IsNone(platform) THEN ""
    ELSE LET os      == platform[1][1]
             arch    == platform[1][2]
             variant == platform[1][3]
         IN  Join((IF NonEmpty(os) THEN <<"--override-os=" \o os>> ELSE <<>>)
                  \o (IF NonEmpty(arch)
                      THEN <<"--override-arch=" \o arch>> ELSE <<>>)
                  \o (IF NonEmpty(variant)
                      THEN <<"--override-variant=" \o variant>> ELSE <<>>),
                  " ")

\* fetch_docker_image: the command line of the copy
copy_cmd(skopeo_executable, args, docker_reference, target) ==
    skopeo_executable \o " copy --insecure-policy " \o args \o " "
        \o docker_reference \o " " \o target

\* A copy whose exit code is not checked
copy_ok_unchecked(exitcode) == TRUE

\* fetch_docker_image: raise when the copy exits non-zero
copy_ok(exitcode) == exitcode = 0

\* _get_fetcher(url)
_get_fetcher(url) ==
    IF StartsWith(url, "docker://") THEN "fetch_docker_image" ELSE "fetch_http"

\* fetch_urls: the urls iterated, a str being split on whitespace
split_urls(given) ==
    IF given.t = "str"
    THEN LET words == Split(given.s)
         IN  [t |-> "list", s |-> "",
              v |-> [k \in 1..Len(words) |-> Strip(words[k])]]
    ELSE given

\* A narrower except clause: "except FetchDockerImageError"
except_clause_narrow(exc) == isinstance(exc, "FetchDockerImageError")

\* fetch_urls: "except Exception" catches exc
except_clause(exc) == isinstance(exc, "Exception")

\* An except block that drops the url: "pass"
try_except_pass(errs, url) == errs

\* fetch_urls: the except block, errors.append(url)
try_except(errs, url) == Append(errs, url)

\* An else block that puts the download first: downloads.insert(0, downloaded)
try_else_insert(dls, downloaded) == <<downloaded>> \o dls

\* fetch_urls: the else block, downloads.append(downloaded)
try_else(dls, downloaded) == Append(dls, downloaded)

---------------------------------------------------------------------------
(* The program: calls, frames and how a fetcher ends.                      *)

NoFrame == [fn |-> "none"]

NoOutcome == [kind |-> "none", value |-> <<>>]

\* The locals of fetch_http(uri) when it is called
HttpFrame(uri) ==
    [fn |-> "fetch_http", uri |-> uri, response |-> None, filename |-> "",
     download_directory |-> "", output_file |-> ""]

\* The locals of fetch_docker_image(docker_reference) when it is called
DockerFrame(docker_reference) ==
    [fn |-> "fetch_docker_image", docker_reference |-> docker_reference,
     filename |-> "", download_directory |-> "", output_file |-> "",
     target |-> "", skopeo_executable |-> "", platform |-> None,
     platform_args |-> "", cmd |-> ""]

\* The locals of get_docker_image_platform(docker_reference) called directly
PlatformFrame(docker_reference) ==
    [fn |-> "get_docker_image_platform",
     docker_reference |-> docker_reference, platform |-> None]

\* One call of pipes.run_command, as the running fetcher saw it
Ran(cmd, result) ==
    [cmd |-> cmd, exitcode |-> result.exitcode, output |-> result.output]

\* The running fetcher returns value (kind "return") or raises it (kind
\* "raise").  Called by the loop of fetch_urls, the try statement takes it:
\* the else block appends the download, the except block appends the url,
\* and the loop moves on; an exception the except clause does not catch
\* leaves fetch_urls.  Called directly, the caller receives it.
Finish(kind, value, lastframe, lastran) ==
    IF entry = "fetch_urls"
    THEN /\ frame' = NoFrame
         /\ ran' = <<>>
         /\ IF kind = "return"
            THEN /\ downloads' = try_else(downloads, value)
                 /\ errors' = errors
                 /\ i' = i + 1
                 /\ pc' = "for"
                 /\ outcome' = outcome
            ELSE IF except_clause(value)
            THEN /\ errors' = try_except(errors, urls.v[i])
                 /\ downloads' = downloads
                 /\ i' = i + 1
                 /\ pc' = "for"
                 /\ outcome' = outcome
            ELSE /\ pc' = "done"
                 /\ outcome' = [kind |-> "raise", value |-> <<value>>]
                 /\ UNCHANGED <<downloads, errors, i>>
    ELSE /\ frame' = lastframe
         /\ ran' = lastran
         /\ pc' = "done"
         /\ outcome' = [kind |-> kind, value |-> <<value>>]
         /\ UNCHANGED <<downloads, errors, i>>

---------------------------------------------------------------------------
(* fetch_urls                                                              *)

\* lines 215-219: the two lists, and the split of a str of urls
fetch_urls ==
    /\ pc = "fetch_urls"
    /\ downloads' = <<>>
    /\ errors' = <<>>
    /\ urls' = split_urls(urls)
    /\ i' = 1
    /\ pc' = "for"
    /\ UNCHANGED <<entry, frame, fs, ran, outcome, location, api>>

\* lines 221-225: the next url, its fetcher, and the call of the fetcher
fetch_urls_for ==
    /\ pc = "for"
    /\ i <= Len(urls.v)
    /\ LET url     == urls.v[i]
           fetcher == _get_fetcher(url)
       IN  /\ pc' = fetcher
           /\ frame' = IF fetcher = "fetch_docker_image"
                       THEN DockerFrame(url) ELSE HttpFrame(url)
    /\ ran' = <<>>
    /\ UNCHANGED <<entry, urls, i, downloads, errors, fs, outcome,
                   location, api>>

\* line 231: the loop is over
fetch_urls_return ==
    /\ pc = "for"
    /\ i > Len(urls.v)
    /\ pc' = "done"
    /\ outcome' = [kind |-> "return", value |-> <<downloads, errors>>]
    /\ UNCHANGED <<entry, urls, i, downloads, errors, frame, fs, ran,
                   location, api>>

---------------------------------------------------------------------------
(* fetch_http                                                              *)

\* lines 47-58: the request, the status check and the name of the file
fetch_http ==
    /\ pc = "fetch_http"
    /\ \/ Finish("raise", Exc("ConnectionError", frame.uri), frame, ran)
       \/ \E response \in Responses(frame.uri) :
            IF ~status_ok(response)
            THEN Finish("raise", Exc("RequestException", ""),
                        [frame EXCEPT !.response = Some(response)], ran)
            ELSE /\ frame' = [frame EXCEPT
                                !.response = Some(response),
                                !.filename = http_filename(frame.uri, response)]
                 /\ pc' = "fetch_http_write"
                 /\ UNCHANGED <<downloads, errors, i, ran, outcome>>
    /\ UNCHANGED <<entry, urls, fs, location, api>>

\* lines 60-65: the directory, the path and the write of the body
fetch_http_write ==
    /\ pc = "fetch_http_write"
    /\ \E fault \in WriteFaults :
         LET made               == mkdtemp(fs)
             download_directory == TmpDir(fs)
             output_file        == PathJoin(download_directory, frame.filename)
             wrote              == open_write(made, output_file,
                                              frame.response[1].content, fault)
             locals             == [frame EXCEPT
                                      !.download_directory = download_directory,
                                      !.output_file = output_file]
         IN  /\ fs' = wrote.fs
             /\ IF ~IsNone(wrote.exc)
                THEN Finish("raise", wrote.exc[1], locals, ran)
                ELSE /\ frame' = locals
                     /\ pc' = "fetch_http_checksum"
                     /\ UNCHANGED <<downloads, errors, i, ran, outcome>>
    /\ UNCHANGED <<entry, urls, location, api>>

\* lines 67-77: the checksums of the file and the Download
fetch_http_checksum ==
    /\ pc = "fetch_http_checksum"
    /\ \E fault \in ReadFaults :
         LET checksums == multi_checksums(fs, frame.output_file, fault)
         IN  IF ~IsNone(checksums.exc)
             THEN Finish("raise", checksums.exc[1], frame, ran)
             ELSE Finish("return",
                         Download(frame.uri, frame.download_directory,
                                  frame.filename, frame.output_file,
                                  Len(frame.response[1].content),
                                  checksums.sha1, checksums.md5),
                         frame, ran)
    /\ UNCHANGED <<entry, urls, fs, location, api>>

---------------------------------------------------------------------------
(* fetch_docker_image and get_docker_image_platform                        *)

\* lines 159-166: the name of the archive, its directory and path, and the
\* location of skopeo
fetch_docker_image ==
    /\ pc = "fetch_docker_image"
    /\ LET name               == python_safe_name(
                                     Replace(frame.docker_reference,
                                             "docker://", ""))
           filename           == name \o ".tar"
           download_directory == TmpDir(fs)
           output_file        == PathJoin(download_directory, filename)
           skopeo_bin_path    == _get_skopeo_location
           locals             == [frame EXCEPT
                                    !.filename = filename,
                                    !.download_directory = download_directory,
                                    !.output_file = output_file,
                                    !.target = "docker-archive:" \o output_file]
       IN  /\ fs' = mkdtemp(fs)
           /\ IF ~skopeo_bin_path.ok
              THEN Finish("raise", skopeo_bin_path.exc, locals, ran)
              ELSE /\ frame' = [locals EXCEPT !.skopeo_executable =
                                  PathJoin(skopeo_bin_path.path, "skopeo")]
                   /\ pc' = "get_docker_image_platform"
                   /\ UNCHANGED <<downloads, errors, i, ran, outcome>>
    /\ UNCHANGED <<entry, urls, location, api>>

\* lines 107-148: the location of skopeo, the inspection and the platform
\* of its output; called by fetch_docker_image, lines 168-180 follow: the
\* platform arguments and the command line of the copy
get_docker_image_platform ==
    /\ pc = "get_docker_image_platform"
    /\ LET skopeo_bin_path == _get_skopeo_location
       IN  IF ~skopeo_bin_path.ok
           THEN Finish("raise", skopeo_bin_path.exc, frame, ran)
           ELSE \E result \in InspectResults :
             LET cmd     == inspect_cmd(PathJoin(skopeo_bin_path.path, "skopeo"),
                                        frame.docker_reference)
                 lastran == Append(ran, Ran(cmd, result))
             IN  IF ~inspect_ok(result.exitcode)
                 THEN Finish("raise",
                             Exc("FetchDockerImageError", result.output),
                             frame, lastran)
                 ELSE IF result.output.t = "text"
                 THEN Finish("raise",
                             Exc("JSONDecodeError", result.output),
                             frame, lastran)
                 ELSE LET platform == select_platform(result.output)
                          locals   == [frame EXCEPT !.platform = platform]
                      IN  IF frame.fn = "get_docker_image_platform"
                          THEN Finish("return", platform, locals, lastran)
                          ELSE /\ frame' =
                                    [locals EXCEPT
                                       !.platform_args = platform_args(platform),
                                       !.cmd = copy_cmd(
                                                 frame.skopeo_executable,
                                                 platform_args(platform),
                                                 frame.docker_reference,
                                                 frame.target)]
                               /\ ran' = lastran
                               /\ pc' = "fetch_docker_image_copy"
                               /\ UNCHANGED <<downloads, errors, i, outcome>>
    /\ UNCHANGED <<entry, urls, fs, location, api>>

\* lines 181-185: the copy, and the check of its exit code
fetch_docker_image_copy ==
    /\ pc = "fetch_docker_image_copy"
    /\ \E result \in CopyResults :
         LET lastran == Append(ran, Ran(frame.cmd, result))
         IN  /\ fs' = IF IsNone(result.wrote) THEN fs
                      ELSE WithFile(fs, frame.output_file, result.wrote[1])
             /\ IF ~copy_ok(result.exitcode)
                THEN Finish("raise",
                            Exc("FetchDockerImageError", result.output),
                            frame, lastran)
                ELSE /\ ran' = lastran
                     /\ pc' = "fetch_docker_image_checksum"
                     /\ UNCHANGED <<downloads, errors, i, frame, outcome>>
    /\ UNCHANGED <<entry, urls, location, api>>

\* lines 187-197: the checksums and the size of the archive, the Download
fetch_docker_image_checksum ==
    /\ pc = "fetch_docker_image_checksum"
    /\ \E fault \in ReadFaults :
         LET checksums == multi_checksums(fs, frame.output_file, fault)
         IN  IF ~IsNone(checksums.exc)
             THEN Finish("raise", checksums.exc[1], frame, ran)
             ELSE Finish("return",
                         Download(frame.docker_reference,
                                  frame.download_directory, frame.filename,
                                  frame.output_file,
                                  Len(fs.files[frame.output_file]),
                                  checksums.sha1, checksums.md5),
                         frame, ran)
    /\ UNCHANGED <<entry, urls, fs, location, api>>

---------------------------------------------------------------------------
(* scanpipe/api/views.py: RunViewSet, the two actions that schedule a Run. *)

\* The requests received for one Run while the model runs.
MaxRequests == 3

\* A Run that no task has started: the task fields of a new row.
NewRun == [pipeline |-> "docker", task_start_date |-> None,
           task_end_date |-> None, task_exitcode |-> None]

\* Run.task_succeeded: the task ended with exit code 0.
task_succeeded(r) == r.task_exitcode = Some(0)

\* rest_framework Response(message, status=...), status 200 by default
ApiResponse(message, status) == [status |-> status, message |-> message]
NoResponse == ApiResponse("", 0)
HTTP_200_OK == 200
HTTP_400_BAD_REQUEST == 400

\* A request: the action it is routed to, where it is, the run get_object
\* gave it, the callback it gave transaction.on_commit, and its response.
Request(action, obj) ==
    [action |-> action, pc |-> action, run |-> obj, on_commit |-> None,
     response |-> NoResponse]

\* The body of start_pipeline after get_object, for the run it was given:
\* the callback registered and the response.
start_pipeline_body(obj) ==
    IF ~IsNone(obj.task_end_date)
    THEN [on_commit |-> None,
          response |-> ApiResponse("Pipeline already executed.",
                                   HTTP_400_BAD_REQUEST)]
    ELSE IF ~IsNone(obj.task_start_date)
    THEN [on_commit |-> None,
          response |-> ApiResponse("Pipeline already started.",
                                   HTTP_400_BAD_REQUEST)]
    ELSE [on_commit |-> Some("run_pipeline_task_async"),
          response |-> ApiResponse("Pipeline " \o obj.pipeline \o " started.",
                                   HTTP_200_OK)]

\* The body of resume_pipeline after get_object.
resume_pipeline_body(obj) ==
    IF task_succeeded(obj)
    THEN [on_commit |-> None,
          response |-> ApiResponse("Cannot resume a successful pipeline run.",
                                   HTTP_400_BAD_REQUEST)]
    ELSE IF IsNone(obj.task_start_date)
    THEN [on_commit |-> None,
          response |-> ApiResponse("Cannot resume never started pipeline run.",
                                   HTTP_400_BAD_REQUEST)]
    ELSE [on_commit |-> Some("resume_pipeline_task_async"),
          response |-> ApiResponse("Pipeline " \o obj.pipeline \o " resumed.",
                                   HTTP_200_OK)]

\* The request r goes on with the outcome of the body of its action: to the
\* commit when a callback is registered, else it is over.
Respond(r, body) ==
    requests' = [requests EXCEPT ![r] =
        [@ EXCEPT !.on_commit = body.on_commit,
                  !.response = body.response,
                  !.pc = IF IsNone(body.on_commit) THEN "done"
                         ELSE "on_commit"]]

\* run = self.get_object(), of a request routed to either action: the row of
\* the Run is read, without a lock, into the request's own run object.
get_object ==
    /\ Len(requests) < MaxRequests
    /\ \E action \in {"start_pipeline", "resume_pipeline"} :
         requests' = Append(requests, Request(action, run))
    /\ UNCHANGED <<run, queue, started>>
    /\ UNCHANGED fetch

\* RunViewSet.start_pipeline, from the test of task_end_date to the Response
start_pipeline ==
    /\ \E r \in DOMAIN requests :
         /\ requests[r].pc = "start_pipeline"
         /\ Respond(r, start_pipeline_body(requests[r].run))
    /\ UNCHANGED <<run, queue, started>>
    /\ UNCHANGED fetch

\* RunViewSet.resume_pipeline, from the test of task_succeeded to the Response
resume_pipeline ==
    /\ \E r \in DOMAIN requests :
         /\ requests[r].pc = "resume_pipeline"
         /\ Respond(r, resume_pipeline_body(requests[r].run))
    /\ UNCHANGED <<run, queue, started>>
    /\ UNCHANGED fetch

\* The callback given to transaction.on_commit runs: at once when no
\* transaction is open, at the commit of the request's transaction
\* otherwise.  It sends the task manager a message for the run.
on_commit ==
    /\ \E r \in DOMAIN requests :
         /\ requests[r].pc = "on_commit"
         /\ queue' = Append(queue, [task |-> requests[r].on_commit[1],
                                    by |-> r])
         /\ requests' = [requests EXCEPT ![r].pc = "done"]
    /\ UNCHANGED <<run, started>>
    /\ UNCHANGED fetch

\* The task manager takes the next message and starts the task, which
\* records its start on the Run.
run_pipeline_task ==
    /\ queue # <<>>
    /\ IsNone(run.task_start_date) \/ ~IsNone(run.task_end_date)
    /\ run' = [run EXCEPT !.task_start_date = Some("now"),
                          !.task_end_date = None,
                          !.task_exitcode = None]
    /\ started' = Append(started, Head(queue))
    /\ queue' = Tail(queue)
    /\ UNCHANGED requests
    /\ UNCHANGED fetch

\* The task ends, with exit code 0 or not, and records it on the Run.
set_task_ended ==
    /\ ~IsNone(run.task_start_date)
    /\ IsNone(run.task_end_date)
    /\ \E exitcode \in {0, 1} :
         run' = [run EXCEPT !.task_end_date = Some("now"),
                           !.task_exitcode = Some(exitcode)]
    /\ UNCHANGED <<requests, queue, started>>
    /\ UNCHANGED fetch

---------------------------------------------------------------------------
(* The calls checked, and the specifications.                              *)

\* The urls of a batch: a docker reference and an http url.
BatchUris == {"docker://reg.io/img:1", "https://h/a.zip"}

\* The lists of urls given to fetch_urls.
UrlLists == UNION {[1..n -> BatchUris] : n \in 0..MaxUrls}

\* The same urls given as one str, a url per line.
UrlStrs == {" " \o Join(l, "\n\t") \o "\n" : l \in UrlLists}

\* The urls given to fetch_http called directly.
HttpUris == {"https://h/a.zip", "http://h/dl?id=7", "ftp://h/"}

\* The references given to a docker fetcher called directly.
DockerReferences == {"docker://reg.io/img:1", "docker://nginx"}

\* urls, given as a list and as a str
UrlList(l) == [t |-> "list", s |-> "", v |-> l]
UrlStr(u) == [t |-> "str", s |-> u, v |-> <<>>]

Call(fn, given) ==
    /\ entry = fn
    /\ pc = fn
    /\ urls = given
    /\ i = 1
    /\ downloads = <<>>
    /\ errors = <<>>
    /\ fs = InitFs
    /\ ran = <<>>
    /\ outcome = NoOutcome
    /\ location \in Locations
    /\ run = NewRun
    /\ requests = <<>>
    /\ queue = <<>>
    /\ started = <<>>

\* fetch_urls(urls), urls a list or a str
Init ==
    /\ \E given \in {UrlList(l) : l \in UrlLists}
                      \cup {UrlStr(u) : u \in UrlStrs} :
         Call("fetch_urls", given)
    /\ frame = NoFrame

Next ==
    \/ fetch_urls
    \/ fetch_urls_for
    \/ fetch_urls_return
    \/ fetch_http
    \/ fetch_http_write
    \/ fetch_http_checksum
    \/ fetch_docker_image
    \/ get_docker_image_platform
    \/ fetch_docker_image_copy
    \/ fetch_docker_image_checksum

Spec == Init /\ [][Next]_vars

\* fetch_http(uri), called directly
InitHttp ==
    \E uri \in HttpUris :
        /\ Call("fetch_http", UrlList(<<>>))
        /\ frame = HttpFrame(uri)

NextHttp ==
    \/ fetch_http
    \/ fetch_http_write
    \/ fetch_http_checksum

SpecHttp == InitHttp /\ [][NextHttp]_vars

\* fetch_docker_image(ref) and get_docker_image_platform(ref), called directly
InitDocker ==
    \E ref \in DockerReferences :
        \/ /\ Call("fetch_docker_image", UrlList(<<>>))
           /\ frame = DockerFrame(ref)
        \/ /\ Call("get_docker_image_platform", UrlList(<<>>))
           /\ frame = PlatformFrame(ref)

NextDocker ==
    \/ fetch_docker_image
    \/ get_docker_image_platform
    \/ fetch_docker_image_copy
    \/ fetch_docker_image_checksum

SpecDocker == InitDocker /\ [][NextDocker]_vars

\* Every call checked: fetch_urls and each fetcher called directly
InitAll == Init \/ InitHttp \/ InitDocker

SpecAll == InitAll /\ [][Next]_vars

\* The requests to start_pipeline and resume_pipeline of one Run, by any
\* number of clients at once, and the task manager
InitRun ==
    /\ entry = "RunViewSet"
    /\ pc = "done"
    /\ urls = UrlList(<<>>)
    /\ i = 1
    /\ downloads = <<>>
    /\ errors = <<>>
    /\ frame = NoFrame
    /\ fs = InitFs
    /\ ran = <<>>
    /\ outcome = NoOutcome
    /\ location = "/opt/skopeo/bin"
    /\ run = NewRun
    /\ requests = <<>>
    /\ queue = <<>>
    /\ started = <<>>

NextRun ==
    \/ get_object
    \/ start_pipeline
    \/ resume_pipeline
    \/ on_commit
    \/ run_pipeline_task
    \/ set_task_ended

SpecRun == InitRun /\ [][NextRun]_vars

---------------------------------------------------------------------------
(* What the claims are stated with.                                        *)

\* The elements of a sequence
Range(seq) == {seq[k] : k \in 1..Len(seq)}

\* How many times x occurs in seq
Occurrences(seq, x) == Cardinality({k \in 1..Len(seq) : seq[k] = x})

\* The uris of a list of Downloads, in order
UrisOf(dls) == [k \in 1..Len(dls) |-> dls[k].uri]

\* The elements of seq at the positions of the set S, in increasing order
RECURSIVE AtPositions(_, _, _)
AtPositions(seq, S, k) ==
    IF k > Len(seq) THEN <<>>
    ELSE (IF k \in S THEN <<seq[k]>> ELSE <<>>) \o AtPositions(seq, S, k + 1)

\* fetch_urls has returned or raised
BatchDone == entry = "fetch_urls" /\ pc = "done"

\* A fetcher is running
Fetching == pc \notin {"fetch_urls", "for", "done"}

---------------------------------------------------------------------------
(* C1: the two lists partition the batch.                                  *)

\* C1, as stated: when fetch_urls returns for a non-empty batch,
\* len(downloads) + len(errors) == len(urls), and every url of the batch is
\* in exactly one of the two lists: the uri of a Download or a str of errors,
\* never both and never neither.
C1_EveryUriInExactlyOneList ==
    (BatchDone /\ outcome.kind = "return" /\ Len(urls.v) > 0) =>
        LET dls  == outcome.value[1]
            errs == outcome.value[2]
        IN  /\ Len(dls) + Len(errs) = Len(urls.v)
            /\ \A u \in Range(urls.v) :
                 (u \in Range(UrisOf(dls))) # (u \in Range(errs))

\* C1, amended: when fetch_urls returns for a non-empty batch,
\* len(downloads) + len(errors) == len(urls), and every occurrence of a url
\* in the batch is reported in exactly one of the two lists: for each url,
\* the Downloads of it plus its occurrences in errors are as many as its
\* occurrences in the batch, and nothing else is in either list.
C1_EveryOccurrenceInExactlyOneList ==
    (BatchDone /\ outcome.kind = "return" /\ Len(urls.v) > 0) =>
        LET dls  == outcome.value[1]
            errs == outcome.value[2]
        IN  /\ Len(dls) + Len(errs) = Len(urls.v)
            /\ Range(UrisOf(dls)) \cup Range(errs) \subseteq Range(urls.v)
            /\ \A u \in Range(urls.v) :
                 Occurrences(UrisOf(dls), u) + Occurrences(errs, u)
                     = Occurrences(urls.v, u)

\* A batch that names a url twice, fetched once and failed once.
C1_Witness ==
    /\ BatchDone
    /\ outcome.kind = "return"
    /\ \E u \in Range(urls.v) :
         /\ Occurrences(urls.v, u) = 2
         /\ Occurrences(UrisOf(downloads), u) = 1
         /\ Occurrences(errors, u) = 1

---------------------------------------------------------------------------
(* C2: a fetcher that raises fails its url only.                           *)

\* C2: in fetch_urls, the step in which the fetcher of urls[i] raises (the
\* fetch ends without a Download) appends urls[i] itself to errors, leaves
\* downloads alone and goes on with the loop at the next url; and
\* fetch_urls never ends by an exception: it returns, with every url of the
\* batch dispatched.
C2_RaiseIsRecordedAndLoopGoesOn ==
    /\ [][(entry = "fetch_urls" /\ Fetching /\ ~Fetching'
            /\ downloads' = downloads)
          => /\ errors' = Append(errors, urls.v[i])
             /\ pc' = "for"
             /\ i' = i + 1
             /\ outcome' = NoOutcome]_vars
    /\ [](BatchDone => outcome.kind = "return" /\ i = Len(urls.v) + 1)

\* A batch of three whose first url failed and whose two later urls were
\* fetched.
C2_Witness ==
    /\ BatchDone
    /\ Len(urls.v) = 3
    /\ errors = <<urls.v[1]>>
    /\ UrisOf(downloads) = <<urls.v[2], urls.v[3]>>

---------------------------------------------------------------------------
(* C3: a Download is made of a file that exists, with its digests.         *)

\* The Download the step makes, None when it makes none: the one fetch_urls
\* appends to downloads, the one a fetcher called directly returns.
MadeDownload ==
    IF entry = "fetch_urls"
    THEN IF Len(downloads') > Len(downloads)
         THEN Some(downloads'[Len(downloads')]) ELSE None
    ELSE IF entry \in {"fetch_http", "fetch_docker_image"}
            /\ outcome.kind = "none" /\ outcome'.kind = "return"
         THEN Some(outcome'.value[1]) ELSE None

\* C3: whenever fetch_http or fetch_docker_image makes a Download (returned
\* to a direct caller, or appended to downloads by fetch_urls), its file is
\* on disk and its md5 and sha1 are the digests of that file's content; and
\* no step of the fetch had failed: the HTTP status was 200 and the body was
\* written whole, the tool location is a directory, and the inspect and the
\* copy commands, in that order, both exited with 0.
C3_DownloadOnlyOfVerifiedFile ==
    [][~IsNone(MadeDownload) =>
        LET d == MadeDownload[1]
        IN  /\ d.path \in DOMAIN fs'.files
            /\ d.md5 = Digest("md5", fs'.files[d.path])
            /\ d.sha1 = Digest("sha1", fs'.files[d.path])
            /\ frame.fn \in {"fetch_http", "fetch_docker_image"}
            /\ frame.fn = "fetch_http" =>
                 /\ frame.response[1].status_code = 200
                 /\ fs'.files[d.path] = frame.response[1].content
            /\ frame.fn = "fetch_docker_image" =>
                 /\ is_dir(location)
                 /\ Len(ran) = 2
                 /\ Contains(ran[1].cmd, " inspect ") /\ ran[1].exitcode = 0
                 /\ Contains(ran[2].cmd, " copy ") /\ ran[2].exitcode = 0]_vars

\* A batch that made a Download and also left on disk the file of a fetch
\* that failed after its file was written.
C3_Witness ==
    /\ BatchDone
    /\ Len(downloads) > 0
    /\ Len(errors) > 0
    /\ \E p \in (DOMAIN fs.files) \ (DOMAIN InitFs.files) :
         \A k \in 1..Len(downloads) : downloads[k].path # p

---------------------------------------------------------------------------
(* C4: the first manifest with a platform gives the platform.              *)

\* The value of key in the members of a dict given as text, "" when the
\* dict has no str of that key.
TextOf(members, key) ==
    IF \E n \in 1..Len(members) : members[n].k = key /\ members[n].j.t = "str"
    THEN (CHOOSE m \in Range(members) : m.k = key /\ m.j.t = "str").j.s
    ELSE ""

\* The manifest has a platform object that is present and not empty.
HasPlatform(manifest) ==
    \E n \in 1..Len(manifest.a) :
        /\ manifest.a[n].k = "platform"
        /\ manifest.a[n].j.t = "obj"
        /\ Len(manifest.a[n].j.a) > 0

\* The members of the platform object of such a manifest.
PlatformOf(manifest) ==
    (CHOOSE m \in Range(manifest.a) : m.k = "platform").j.a

\* The output of the first command run: a JSON object with a manifests array
InspectedManifestList ==
    /\ Len(ran) >= 1
    /\ ran[1].exitcode = 0
    /\ ran[1].output.t = "obj"
    /\ \E n \in 1..Len(ran[1].output.a) :
         ran[1].output.a[n].k = "manifests" /\ ran[1].output.a[n].j.t = "arr"

\* The entries of that array, in listed order
InspectedManifests ==
    LET member == CHOOSE m \in Range(ran[1].output.a) : m.k = "manifests"
    IN  [n \in 1..Len(member.j.a) |-> member.j.a[n].j]

\* What the claim says the platform of a manifests array is.
ClaimedPlatform(manifests) ==
    IF \E n \in 1..Len(manifests) : HasPlatform(manifests[n])
    THEN LET first == CHOOSE n \in 1..Len(manifests) :
                         /\ HasPlatform(manifests[n])
                         /\ \A m \in 1..(n - 1) : ~HasPlatform(manifests[m])
             platform == PlatformOf(manifests[first])
             os       == TextOf(platform, "os")
             arch     == TextOf(platform, "architecture")
         IN  Some(<<IF os = "" THEN "linux" ELSE os,
                    IF arch = "" THEN "amd64" ELSE arch,
                    TextOf(platform, "variant")>>)
    ELSE None

\* C4: once the inspect command has exited with 0 and printed a JSON object
\* with a manifests array, the platform get_docker_image_platform returns is
\* that of the first entry, in listed order, whose platform object is
\* present and not empty, whatever the later entries are: its os ("linux"
\* when missing or empty), its architecture ("amd64" when missing or empty)
\* and its variant ("" when missing).
C4_FirstPlatformWins ==
    (InspectedManifestList /\ pc # "get_docker_image_platform") =>
        /\ frame.platform = ClaimedPlatform(InspectedManifests)
        /\ (entry = "get_docker_image_platform") =>
              /\ pc = "done"
              /\ outcome.kind = "return"
              /\ outcome.value[1] = ClaimedPlatform(InspectedManifests)

\* The example of the claim: entries windows/amd64 then linux/arm/v7 give
\* ("windows", "amd64", "").
C4_Witness ==
    /\ entry = "get_docker_image_platform"
    /\ pc = "done"
    /\ InspectedManifestList
    /\ Len(InspectedManifests) = 2
    /\ ClaimedPlatform(<<InspectedManifests[2]>>) = Some(<<"linux", "arm", "v7">>)
    /\ outcome.kind = "return"
    /\ outcome.value[1] = Some(<<"windows", "amd64", "">>)

---------------------------------------------------------------------------
(* C5: the override flags of the copy command.                             *)

\* The inspect command exited with 0 and printed a JSON object without a
\* manifests array, or with one in which no entry has a platform.
InspectedNoPlatform ==
    /\ Len(ran) >= 1
    /\ ran[1].exitcode = 0
    /\ ran[1].output.t = "obj"
    /\ InspectedManifestList =>
         \A n \in 1..Len(InspectedManifests) : ~HasPlatform(InspectedManifests[n])

\* The copy command line has the flag with that value, as a word of its own
HasFlag(cmd, flag, value) == Contains(cmd, " " \o flag \o "=" \o value \o " ")

\* C5: after an inspection without a manifests array, or with no entry that
\* has a platform, get_docker_image_platform returns None, not an error, and
\* the copy command fetch_docker_image builds has no --override-os,
\* --override-arch or --override-variant flag; with a platform, the copy
\* command has the flag of each of os, architecture and variant that is not
\* empty, with its value, and no flag at all for one that is empty.
C5_OverrideFlags ==
    /\ (InspectedNoPlatform /\ entry = "get_docker_image_platform") =>
          /\ pc = "done"
          /\ outcome = [kind |-> "return", value |-> <<None>>]
    /\ (InspectedNoPlatform /\ entry = "fetch_docker_image") =>
          /\ frame.platform = None
          /\ frame.cmd # ""
          /\ ~Contains(frame.cmd, "--override")
    /\ (entry = "fetch_docker_image" /\ ~IsNone(frame.platform)) =>
          LET os      == frame.platform[1][1]
              arch    == frame.platform[1][2]
              variant == frame.platform[1][3]
          IN  /\ IF os = "" THEN ~Contains(frame.cmd, "--override-os")
                 ELSE HasFlag(frame.cmd, "--override-os", os)
              /\ IF arch = "" THEN ~Contains(frame.cmd, "--override-arch")
                 ELSE HasFlag(frame.cmd, "--override-arch", arch)
              /\ IF variant = "" THEN ~Contains(frame.cmd, "--override-variant")
                 ELSE HasFlag(frame.cmd, "--override-variant", variant)
              /\ CountIn(frame.cmd, "--override", 1, Len(frame.cmd))
                   = Cardinality({k \in 1..3 : frame.platform[1][k] # ""})

\* A copy command built after a manifest list none of whose entries has a
\* platform.
C5_Witness ==
    /\ entry = "fetch_docker_image"
    /\ pc = "fetch_docker_image_copy"
    /\ InspectedManifestList
    /\ Len(InspectedManifests) > 0
    /\ InspectedNoPlatform
    /\ frame.platform = None
    /\ Contains(frame.cmd, " copy --insecure-policy ")

---------------------------------------------------------------------------
(* C6: a response that is not a 200.                                       *)

\* C6: once fetch_http has a response whose status code is not 200, it has
\* raised requests.RequestException, has returned no Download, and the file
\* system is as it was before the call: no directory made, no file written.
C6_Non200Raises ==
    (entry = "fetch_http" /\ ~IsNone(frame.response)
        /\ frame.response[1].status_code # 200) =>
            /\ pc = "done"
            /\ outcome.kind = "raise"
            /\ outcome.value[1].type = "RequestException"
            /\ fs = InitFs

\* A 2xx response that is not a 200.
C6_Witness ==
    /\ entry = "fetch_http"
    /\ pc = "done"
    /\ ~IsNone(frame.response)
    /\ frame.response[1].status_code = 204
    /\ outcome.kind = "raise"

---------------------------------------------------------------------------
(* C7: the name of the file fetch_http writes.                             *)

\* The filename parameter each Content-Disposition header of the
\* environment carries ("" for none): what a reader of the header finds.
ClaimedFilenameParameter(content_disposition) ==
    CASE content_disposition = None -> ""
      [] content_disposition = Some("attachment") -> ""
      [] content_disposition = Some("attachment; filename=\"x.zip\"") -> "x.zip"
      [] content_disposition = Some("attachment; filename=y.zip") -> "y.zip"
      [] content_disposition = Some("attachment; filename=\"\"") -> ""
      [] content_disposition = Some("attachment; FILENAME=\"x.zip\"") -> "x.zip"
      [] content_disposition = Some("inline; filename=\"a;b.zip\"; size=3")
            -> "a;b.zip"
      [] content_disposition = Some("attachment; filename=\"sub/x.zip\"")
            -> "sub/x.zip"
      [] content_disposition = Some("attachment; filename=\"/tmp/evil\"")
            -> "/tmp/evil"
      [] content_disposition = Some("attachment; filename*=UTF-8''x.zip") -> ""

\* The final segment of the path of each url of the environment: the last
\* name of the path, without parameters, query and fragment.
ClaimedFinalSegment(url) ==
    CASE url = "https://host/final/name.tar.gz" -> "name.tar.gz"
      [] url = "https://h/dir/" -> "dir"
      [] url = "https://h/" -> ""
      [] url = "https://h/p/f.zip;v=1?x=1#frag" -> "f.zip"
      [] url = "https://h/a.zip" -> "a.zip"
      [] url = "http://h/dl?id=7" -> "dl"
      [] url = "ftp://h/" -> ""

\* The name the claim gives the file of a response.
ClaimedName(response) ==
    IF ClaimedFilenameParameter(response.content_disposition) # ""
    THEN ClaimedFilenameParameter(response.content_disposition)
    ELSE ClaimedFinalSegment(response.url)

\* C7: for a 200 response, the name fetch_http gives the local file is the
\* filename parameter of the Content-Disposition header when it has one that
\* is not empty, whatever the urls are, and otherwise the final segment of
\* the path of the effective url, not of the uri requested; the Download
\* returned has that name as filename, and the body is the content of the
\* one file the call wrote, at the Download's path.
C7_FilenameOfHeaderThenEffectiveUrl ==
    (entry = "fetch_http" /\ ~IsNone(frame.response)
        /\ frame.response[1].status_code = 200) =>
            /\ frame.filename = ClaimedName(frame.response[1])
            /\ outcome.kind = "return" =>
                 LET d == outcome.value[1]
                 IN  /\ d.filename = ClaimedName(frame.response[1])
                     /\ (DOMAIN fs.files) \ (DOMAIN InitFs.files) = {d.path}
                     /\ fs.files[d.path] = frame.response[1].content

\* A Download named after the end of a redirect chain, the uri requested
\* having another name.
C7_Witness ==
    /\ entry = "fetch_http"
    /\ outcome.kind = "return"
    /\ frame.uri = "https://h/a.zip"
    /\ frame.response[1].content_disposition = None
    /\ frame.response[1].url = "https://host/final/name.tar.gz"
    /\ outcome.value[1].filename = "name.tar.gz"

---------------------------------------------------------------------------
(* C8: skopeo is not installed.                                            *)

\* The urls of a list that are docker references
DockerOnes(seq) == SelectSeq(seq, LAMBDA u : StartsWith(u, "docker://"))

\* C8: when what the tool location resolves to does not exist or is no
\* directory, fetch_docker_image and get_docker_image_platform, called
\* directly, raise the exception of _get_skopeo_location (an Exception whose
\* message says that skopeo is not installed) and never run a command; and
\* fetch_urls never makes a Download of a docker reference, returns with
\* every docker reference of the batch, in order, in errors, and has still
\* dispatched every other url of the batch.
C8_ToolNotInstalled ==
    ~is_dir(location) =>
        /\ ran = <<>>
        /\ (entry \in {"fetch_docker_image", "get_docker_image_platform"}
              /\ pc = "done") =>
                outcome = [kind  |-> "raise",
                           value |-> <<Exc("Exception",
                               "CRITICAL: skopeo executable is not installed.")>>]
        /\ (entry \in {"fetch_docker_image", "get_docker_image_platform"}) =>
              pc \in {entry, "done"}
        /\ (entry = "fetch_urls" /\ pc # "fetch_urls") =>
              /\ DockerOnes(UrisOf(downloads)) = <<>>
              /\ DockerOnes(errors) = DockerOnes(SubSeq(urls.v, 1, i - 1))
              /\ pc = "done" =>
                   /\ outcome.kind = "return"
                   /\ i = Len(urls.v) + 1
                   /\ DockerOnes(errors) = DockerOnes(urls.v)

\* A batch fetched without skopeo: its docker reference is in errors and
\* another url of the batch has been downloaded after it.
C8_Witness ==
    /\ BatchDone
    /\ ~is_dir(location)
    /\ Len(urls.v) >= 2
    /\ StartsWith(urls.v[1], "docker://")
    /\ errors = <<urls.v[1]>>
    /\ Len(downloads) = Len(urls.v) - 1

---------------------------------------------------------------------------
(* C9: one url at a time, in the order of the batch.                       *)

\* C9: fetch_urls fetches one url at a time, in the order of the batch:
\* while url number i is being fetched, and when the loop stands before it,
\* the i - 1 urls before it, and no other, have each been settled into one of
\* the two lists; and downloads and errors each hold their urls in the order
\* in which the batch has them: the positions 1..i-1 of the batch split into
\* those of downloads and those of errors, each list in increasing position.
C9_OneAtATimeInInputOrder ==
    (entry = "fetch_urls" /\ pc # "fetch_urls") =>
        /\ Len(downloads) + Len(errors) = i - 1
        /\ i <= Len(urls.v) + 1
        /\ Fetching => /\ i <= Len(urls.v)
                       /\ frame.fn = "fetch_http" => frame.uri = urls.v[i]
                       /\ frame.fn = "fetch_docker_image" =>
                            frame.docker_reference = urls.v[i]
        /\ \E S \in SUBSET (1..(i - 1)) :
             /\ UrisOf(downloads) = AtPositions(urls.v, S, 1)
             /\ errors = AtPositions(urls.v, (1..(i - 1)) \ S, 1)

\* A batch with two Downloads of different urls and an error between them.
C9_Witness ==
    /\ BatchDone
    /\ Len(urls.v) = 3
    /\ urls.v[1] # urls.v[3]
    /\ UrisOf(downloads) = <<urls.v[1], urls.v[3]>>
    /\ errors = <<urls.v[2]>>

---------------------------------------------------------------------------
(* C10: inspect, then copy, then the checksums.                            *)

\* C10: in fetch_docker_image a copy command is only ever the second
\* command run, with skopeo located in a directory and after an inspect
\* command of the same reference that exited with 0; when the inspect
\* command exits non-zero the fetch has raised FetchDockerImageError with
\* the output captured, no copy has run and no Download is returned; when
\* the copy command exits non-zero the fetch has raised
\* FetchDockerImageError with the output captured, without reaching the
\* checksums or a Download.
C10_CopyOnlyAfterInspect ==
    /\ \A k \in 1..Len(ran) :
         Contains(ran[k].cmd, " copy ") =>
            /\ k = 2
            /\ is_dir(location)
            /\ ran[1].cmd = location \o "/skopeo inspect --insecure-policy"
                              \o " --raw --no-creds " \o frame.docker_reference
            /\ ran[1].exitcode = 0
            /\ Contains(ran[2].cmd, " " \o frame.docker_reference \o " ")
    /\ (Len(ran) >= 1 /\ ran[1].exitcode # 0) =>
          /\ Len(ran) = 1
          /\ Contains(ran[1].cmd, " inspect ")
          /\ pc = "done"
          /\ outcome = [kind  |-> "raise",
                        value |-> <<Exc("FetchDockerImageError",
                                        ran[1].output)>>]
    /\ (Len(ran) = 2 /\ ran[2].exitcode # 0) =>
          /\ pc = "done"
          /\ outcome = [kind  |-> "raise",
                        value |-> <<Exc("FetchDockerImageError",
                                        ran[2].output)>>]
    /\ pc = "fetch_docker_image_checksum" =>
          Len(ran) = 2 /\ ran[2].exitcode = 0

\* A copy that failed after an inspection that succeeded.
C10_Witness ==
    /\ entry = "fetch_docker_image"
    /\ pc = "done"
    /\ Len(ran) = 2
    /\ ran[1].exitcode = 0
    /\ ran[2].exitcode # 0
    /\ outcome.kind = "raise"


\* The messages sent to the task manager so far, taken or not
Sent == Range(queue) \cup Range(started)

\* The guard of start_pipeline, on a run: no task start date, no task end date
StartGuard(obj) == IsNone(obj.task_start_date) /\ IsNone(obj.task_end_date)

\* The guard of resume_pipeline, on a run: a task start date, not succeeded
ResumeGuard(obj) == ~IsNone(obj.task_start_date) /\ obj.task_exitcode # Some(0)

\* The guard of a request's action, on the run the request read
GuardOf(q) ==
    IF q.action = "start_pipeline" THEN StartGuard(q.run)
    ELSE ResumeGuard(q.run)

\* A task is scheduled only by a request whose guard held on the run it
\* read, of the kind of its action; a request whose guard did not hold
\* answers 400, registers no callback and schedules nothing; one whose guard
\* held answers 200.
ScheduledOnlyUnderGuard ==
    /\ \A t \in Sent :
         LET q == requests[t.by] IN
             /\ GuardOf(q)
             /\ q.response.status = 200
             /\ t.task = (IF q.action = "start_pipeline"
                          THEN "run_pipeline_task_async"
                          ELSE "resume_pipeline_task_async")
    /\ \A r \in DOMAIN requests :
         LET q == requests[r] IN
             q.response.status # 0 =>
                 IF GuardOf(q)
                 THEN q.response.status = 200
                 ELSE /\ q.response.status = 400
                      /\ IsNone(q.on_commit)
                      /\ \A t \in Sent : t.by # r
    /\ \A r \in DOMAIN requests :
         Cardinality({t \in Sent : t.by = r}) <= 1

\* The run is started through start_pipeline at most once: start_pipeline
\* schedules, and answers "started" for, at most one task of the run.
StartedOnceThroughStartPipeline ==
    Cardinality({t \in Sent : t.task = "run_pipeline_task_async"}) <= 1

\* C11: across any interleaving of start_pipeline and resume_pipeline requests
\* on one Run, a task is scheduled only when the guard of the action holds at
\* request time, every rejected request answers 400 and schedules nothing,
\* and so the run is never started a second time through start_pipeline.
C11_GuardedAndNeverStartedTwice ==
    /\ ScheduledOnlyUnderGuard
    /\ StartedOnceThroughStartPipeline

=============================================================================
